---- MODULE Spec2Model ----
(***************************************************************************)
(* The medicine-dispensing handler giveMedicines of the pharmacy backend,  *)
(* run by concurrent HTTP calls against the medicines and visits           *)
(* collections.  Every await of the handler is one step of a call; a       *)
(* store operation (findById, findOne, save) is atomic on its document.    *)
(***************************************************************************)
EXTENDS Integers, Sequences, FiniteSets, TLC

\* ------------------------------------------------------------------ bounds
\* Total number of calls started over a run.
MaxCalls == 2
\* Longest medicine list edited in the pharmacist tab.
MaxItems == 2

\* ---------------------------------------------------------------- universe
Procs == {"p1", "p2"}

\* Medicines present in the inventory collection, and their opening stock.
Stocked == {"A", "B"}
InitQuantity == [m \in Stocked |-> IF m = "A" THEN 100 ELSE 10]
\* Their warning levels.
InitThreshold == [m \in Stocked |-> IF m = "A" THEN 50 ELSE 5]

\* Visits present in the visits collection.
VisitIds == {"v1", "v2"}

\* A falsy request field (undefined, null or the empty string).
Missing == "missing"

\* An item of the medicines list, its free-text annotations left empty.
Item(n, q) ==
    [medicineName |-> n, quantity |-> q,
     dosage |-> "", instructions |-> "", kala |-> "", anupana |-> ""]

A60 == Item("A", 60)
B10 == [Item("B", 10) EXCEPT !.dosage = "1-0-1", !.kala = "after food"]

\* The item lists sent: none; one stocked medicine; the same medicine twice;
\* two stocked medicines in either order; a stocked medicine followed by a
\* name absent from the inventory; a blank name; a negative quantity.
MedLists ==
    { <<>>, <<A60>>, <<A60, A60>>, <<B10, A60>>, <<A60, B10>>,
      <<A60, Item("Z", 10)>>, <<Item("", 10)>>, <<Item("A", -10)>> }

\* req.body; isArray is Array.isArray(medicines).
Req(v, h, ms) ==
    [visitId |-> v, hospitalId |-> h, medicines |-> ms, isArray |-> TRUE]

\* A body whose medicines field is not an array.
NotAList(v, h) ==
    [visitId |-> v, hospitalId |-> h, medicines |-> <<>>, isArray |-> FALSE]

\* Request bodies: every item list on every visit, and the malformed ones.
Requests ==
    { Req(v, "h1", ms) : v \in VisitIds, ms \in MedLists }
      \cup { Req("v9", "h1", <<A60>>),
             Req(Missing, "h1", <<A60>>),
             Req("v1", Missing, <<A60>>),
             NotAList("v1", "h1"),
             NotAList("v9", "h1") }

\* The same body sent with the id of the other hospital.
OtherHospital(r) ==
    [r EXCEPT !.hospitalId = IF @ = "h1" THEN "h2" ELSE "h1"]

NoReq == Req(Missing, Missing, <<>>)

\* ---------------------------------------------------------------- responses
Resp(k, n, a, r) == [kind |-> k, name |-> n, available |-> a, required |-> r]
NoResp == Resp("none", "", 0, 0)
Ok == Resp("Ok", "", 0, 0)
InvalidRequest == Resp("InvalidRequest", "", 0, 0)
VisitNotFoundThrown == Resp("Exception", "null visit", 0, 0)
VisitNotFound == Resp("VisitNotFound", "", 0, 0)
AlreadyDispensed == Resp("AlreadyDispensed", "", 0, 0)
MedicineNotFound(n) == Resp("MedicineNotFound", n, 0, 0)
InsufficientStock(n, a, r) == Resp("InsufficientStock", n, a, r)
\* The catch block: the message of whatever was thrown.
ThrownAsSuccess(msg) == Resp("Ok", "", 0, 0)
Thrown(msg) == Resp("Exception", msg, 0, 0)

Zero == [m \in Stocked |-> 0]

VARIABLES
    quantity,   \* medicines collection: name -> stored quantity
    visits,     \* visits collection: id -> [medicineGiven, givenMedicines]
    pc,         \* position of each call in the handler
    req,        \* req.body of each call
    idx,        \* index of the item the running loop is at
    medDoc,     \* the medicine document held between findOne and save
    resp,       \* the response the call sent
    started,    \* number of calls started so far
    net,        \* history: what each call's saves took from each quantity
    pre,        \* history: the collections as they were when the call began
    alone,      \* history: no other call ran since this call began
    okSum,      \* history: quantities requested by the calls that succeeded
    saved,      \* history: number of medicine saves of the call so far
    lowStockThreshold,  \* medicines collection: name -> warning level
    marked,     \* history: the visit save of the call was stored
    left,       \* history: the collections as the first call of a pair left them
    tab         \* the pharmacist tab: its React state and its dispense request

vars == <<quantity, visits, pc, req, idx, medDoc, resp, started, net, pre,
          alone, okSum, saved, lowStockThreshold, marked,
          left,
          tab>>

InFlight(p) == pc[p] \notin {"idle", "done"}

\* ------------------------------------------------------------------ helpers
\* req.body passes the guard at the head of the handler.
HeaderOkNoHospital(r) == r.visitId # Missing /\ r.isArray
HeaderOkOwnHospital(r) ==
    /\ r.visitId # Missing
    /\ r.hospitalId = "h1"
    /\ r.isArray
HeaderOk(r) ==
    /\ r.visitId # Missing
    /\ r.hospitalId # Missing
    /\ r.isArray

\* Medicine.findOne({ name }): a document exists for the name.
Found(n) == n \in Stocked

\* The check on the visit read: visit.medicineGiven.
IsGivenNever(doc) == FALSE
IsGiven(doc) == doc.medicineGiven

\* The stock test of the validation loop: medicine.quantity < item.quantity.
InsufficientOrEqual(have, item) == have <= item.quantity
InsufficientUnderThreshold(have, item) ==
    have - item.quantity < lowStockThreshold[item.medicineName]
Insufficient(have, item) == have < item.quantity

\* The subtraction of the deduction loop: medicine.quantity -= item.quantity.
SubtractOneLess(have, item) == have - item.quantity + 1
Subtract(have, item) == have - item.quantity

\* The schema validator of quantity run by save(): min 0.
ValidatesAnything(q) == TRUE
Validates(q) == q >= 0

\* The fields of the visit the handler assigns before visit.save().
DispensedBare(ms) ==
    [medicineGiven |-> TRUE,
     givenMedicines |->
        [k \in 1..Len(ms) |-> Item(ms[k].medicineName, ms[k].quantity)]]
Dispensed(ms) == [medicineGiven |-> TRUE, givenMedicines |-> ms]

NewVisit ==
    [medicineGiven |-> FALSE, givenMedicines |-> <<>>,
     prescribedMedicines |-> <<A60>>]

\* The quantity a list of items asks of medicine m, summed over its items.
RECURSIVE Requested(_, _)
Requested(ms, m) ==
    IF ms = <<>> THEN 0
    ELSE (IF Head(ms).medicineName = m THEN Head(ms).quantity ELSE 0)
            + Requested(Tail(ms), m)

Snapshot == [quantity |-> quantity, visits |-> visits]

\* No first call of a pair has been set aside.
NotLeft ==
    [taken |-> FALSE, quantity |-> InitQuantity,
     visits |-> [v \in VisitIds |-> NewVisit]]

\* The tab holds no visit.
NoVisit == [id |-> Missing, medicineGiven |-> FALSE]

\* The tab as mounted: useState(null), useState([]), useState(false).
NewTab ==
    [visit |-> NoVisit, medicines |-> <<>>, dispensing |-> FALSE,
     loading |-> FALSE, token |-> Missing,
     pc |-> "idle", held |-> NoVisit, sent |-> <<>>]

Finish(p, r) ==
    /\ pc' = [pc EXCEPT ![p] = "done"]
    /\ resp' = [resp EXCEPT ![p] = r]

\* ------------------------------------------------------------------ initial
Init ==
    /\ quantity = InitQuantity
    /\ visits = [v \in VisitIds |-> NewVisit]
    /\ pc = [p \in Procs |-> "idle"]
    /\ req = [p \in Procs |-> NoReq]
    /\ idx = [p \in Procs |-> 0]
    /\ medDoc = [p \in Procs |-> Item("", 0)]
    /\ resp = [p \in Procs |-> NoResp]
    /\ started = 0
    /\ net = [p \in Procs |-> Zero]
    /\ pre = [p \in Procs |-> [quantity |-> InitQuantity,
                               visits |-> [v \in VisitIds |-> NewVisit]]]
    /\ alone = [p \in Procs |-> TRUE]
    /\ okSum = Zero
    /\ saved = [p \in Procs |-> 0]
    /\ lowStockThreshold = InitThreshold
    /\ marked = [p \in Procs |-> FALSE]
    /\ left = NotLeft
    /\ tab = NewTab

\* ------------------------------------------------------------------ actions
\* A call arrives with one of the bodies rs: the destructuring of req.body
\* and the guard on it.
Arrive(p, rs) ==
    /\ pc[p] = "idle"
    /\ started < MaxCalls
    /\ \E r \in rs :
         /\ req' = [req EXCEPT ![p] = r]
         /\ IF HeaderOk(r)
              THEN /\ pc' = [pc EXCEPT ![p] = "findVisit"]
                   /\ resp' = resp
              ELSE Finish(p, InvalidRequest)
    /\ started' = started + 1
    /\ pre' = [pre EXCEPT ![p] = Snapshot]
    /\ alone' = [q \in Procs |->
                   IF q = p THEN \A o \in Procs \ {p} : ~InFlight(o)
                   ELSE IF pc[q] = "idle" THEN alone[q] ELSE FALSE]
    /\ UNCHANGED <<quantity, visits, idx, medDoc, net, okSum, saved,
                   lowStockThreshold, marked,
                   left,
                   tab>>

Start(p) == Arrive(p, Requests)

\* Visit.findById and the two checks on its result.
FindVisit(p) ==
    /\ pc[p] = "findVisit"
    /\ LET v == req[p].visitId
           ms == req[p].medicines
       IN IF v \notin VisitIds
            THEN Finish(p, VisitNotFound) /\ idx' = idx
            ELSE IF IsGiven(visits[v])
              THEN Finish(p, AlreadyDispensed) /\ idx' = idx
              ELSE /\ pc' = [pc EXCEPT ![p] =
                                IF ms = <<>> THEN "saveVisit" ELSE "validate"]
                   /\ idx' = [idx EXCEPT ![p] = 1]
                   /\ resp' = resp
    /\ UNCHANGED <<quantity, visits, req, medDoc, started, net, pre, alone,
                   okSum, saved, lowStockThreshold, marked,
                   left,
                   tab>>

\* One round of the validation loop: findOne and the two checks.
Validate(p) ==
    /\ pc[p] = "validate"
    /\ LET ms == req[p].medicines
           item == ms[idx[p]]
           n == item.medicineName
       IN IF ~Found(n)
            THEN Finish(p, MedicineNotFound(n)) /\ idx' = idx
            ELSE IF Insufficient(quantity[n], item)
              THEN /\ Finish(p, InsufficientStock(n, quantity[n], item.quantity))
                   /\ idx' = idx
              ELSE /\ resp' = resp
                   /\ IF idx[p] = Len(ms)
                        THEN /\ pc' = [pc EXCEPT ![p] = "deductFind"]
                             /\ idx' = [idx EXCEPT ![p] = 1]
                        ELSE /\ pc' = pc
                             /\ idx' = [idx EXCEPT ![p] = idx[p] + 1]
    /\ UNCHANGED <<quantity, visits, req, medDoc, started, net, pre, alone,
                   okSum, saved, lowStockThreshold, marked,
                   left,
                   tab>>

\* The loop variable moves on after an item of the deduction loop.
NextItemSkipRest(p) ==
    /\ pc' = [pc EXCEPT ![p] = "saveVisit"]
    /\ idx' = idx
NextItem(p) ==
    IF idx[p] = Len(req[p].medicines)
      THEN /\ pc' = [pc EXCEPT ![p] = "saveVisit"]
           /\ idx' = idx
      ELSE /\ pc' = [pc EXCEPT ![p] = "deductFind"]
           /\ idx' = [idx EXCEPT ![p] = idx[p] + 1]

\* One round of the deduction loop up to its save: findOne, then the
\* subtraction on the document held in memory.
DeductFind(p) ==
    /\ pc[p] = "deductFind"
    /\ LET item == req[p].medicines[idx[p]]
           n == item.medicineName
       IN IF Found(n)
            THEN /\ medDoc' = [medDoc EXCEPT ![p] =
                                 Item(n, Subtract(quantity[n], item))]
                 /\ pc' = [pc EXCEPT ![p] = "deductSave"]
                 /\ idx' = idx
            ELSE /\ medDoc' = medDoc
                 /\ NextItem(p)
    /\ UNCHANGED <<quantity, visits, req, resp, started, net, pre, alone,
                   okSum, saved, lowStockThreshold, marked,
                   left,
                   tab>>

\* medicine.save(): the validators run, then the held quantity is written
\* over the stored one; the store may refuse the write.
DeductSave(p) ==
    /\ pc[p] = "deductSave"
    /\ LET n == medDoc[p].medicineName
           q == medDoc[p].quantity
       IN IF ~Validates(q)
            THEN /\ Finish(p, Thrown("validation"))
                 /\ UNCHANGED <<quantity, net, idx, saved>>
            ELSE \E stored \in BOOLEAN :
                   IF stored
                     THEN /\ quantity' = [quantity EXCEPT ![n] = q]
                          /\ net' = [net EXCEPT ![p][n] = @ + quantity[n] - q]
                          /\ saved' = [saved EXCEPT ![p] = @ + 1]
                          /\ resp' = resp
                          /\ NextItem(p)
                     ELSE /\ Finish(p, Thrown("store"))
                          /\ UNCHANGED <<quantity, net, idx, saved>>
    /\ UNCHANGED <<visits, req, medDoc, started, pre, alone, okSum,
                   lowStockThreshold, marked,
                   left,
                   tab>>

\* The visit is marked and saved, and the success response sent; the store
\* may refuse the write.
SaveVisit(p) ==
    /\ pc[p] = "saveVisit"
    /\ LET v == req[p].visitId
           ms == req[p].medicines
       IN \E stored \in BOOLEAN :
            IF stored
              THEN /\ visits' =
                        [visits EXCEPT
                           ![v].medicineGiven = Dispensed(ms).medicineGiven,
                           ![v].givenMedicines = Dispensed(ms).givenMedicines]
                   /\ okSum' = [m \in Stocked |-> okSum[m] + Requested(ms, m)]
                   /\ marked' = [marked EXCEPT ![p] = TRUE]
                   /\ Finish(p, Ok)
              ELSE /\ Finish(p, Thrown("store"))
                   /\ UNCHANGED <<visits, okSum, marked>>
    /\ UNCHANGED <<quantity, req, idx, medDoc, started, net, pre, alone,
                   saved, lowStockThreshold,
                   left,
                   tab>>

\* The call is over; its slot is free for the next call.
Return(p) ==
    /\ pc[p] = "done"
    /\ started < MaxCalls
    /\ pc' = [pc EXCEPT ![p] = "idle"]
    /\ req' = [req EXCEPT ![p] = NoReq]
    /\ idx' = [idx EXCEPT ![p] = 0]
    /\ medDoc' = [medDoc EXCEPT ![p] = Item("", 0)]
    /\ resp' = [resp EXCEPT ![p] = NoResp]
    /\ net' = [net EXCEPT ![p] = Zero]
    /\ pre' = [pre EXCEPT ![p] = [quantity |-> InitQuantity,
                                  visits |-> [v \in VisitIds |-> NewVisit]]]
    /\ alone' = [alone EXCEPT ![p] = TRUE]
    /\ saved' = [saved EXCEPT ![p] = 0]
    /\ marked' = [marked EXCEPT ![p] = FALSE]
    /\ UNCHANGED <<quantity, visits, started, okSum, lowStockThreshold,
                   left,
                   tab>>

\* A step of the handler after the call has arrived: the continuation of an
\* await.  Nothing in the handler waits for another call.
StepSerialized(p) ==
    /\ \A q \in Procs \ {p} : ~InFlight(q)
    /\ \/ FindVisit(p)
       \/ Validate(p)
       \/ DeductFind(p)
       \/ DeductSave(p)
       \/ SaveVisit(p)
Step(p) ==
    \/ FindVisit(p)
    \/ Validate(p)
    \/ DeductFind(p)
    \/ DeductSave(p)
    \/ SaveVisit(p)

Next ==
    \E p \in Procs :
        \/ Start(p)
        \/ Step(p)
        \/ Return(p)

Spec == Init /\ [][Next]_vars

\* The bodies of the calls whose scheduling is examined: one and two items,
\* the two visits, the same medicine in all of them.
LiveRequests ==
    { Req(v, "h1", ms) : v \in VisitIds,
                         ms \in {<<A60>>, <<B10, A60>>, <<A60, A60>>} }
      \cup { Req("v9", "h1", <<A60>>), NotAList("v1", "h1") }

LiveNext ==
    \E p \in Procs :
        \/ Arrive(p, LiveRequests)
        \/ Step(p)
        \/ Return(p)

\* The event loop runs every continuation whose await has settled, and the
\* store settles every operation.
LiveSpec ==
    Init /\ [][LiveNext]_vars /\ \A p \in Procs : WF_vars(Step(p))

\* The collections a pair of calls is run from: as seeded, and as a dispense
\* of A60 on visit v1 leaves them.
TwinStores ==
    { [quantity |-> InitQuantity, visits |-> [v \in VisitIds |-> NewVisit]],
      [quantity |-> [InitQuantity EXCEPT !["A"] = Subtract(@, A60)],
       visits |-> [v \in VisitIds |->
                     IF v = "v1"
                       THEN [NewVisit EXCEPT
                               !.medicineGiven = Dispensed(<<A60>>).medicineGiven,
                               !.givenMedicines = Dispensed(<<A60>>).givenMedicines]
                       ELSE NewVisit]] }

TwinInit ==
    /\ \E s \in TwinStores :
         /\ quantity = s.quantity
         /\ visits = s.visits
    /\ pc = [p \in Procs |-> "idle"]
    /\ req = [p \in Procs |-> NoReq]
    /\ idx = [p \in Procs |-> 0]
    /\ medDoc = [p \in Procs |-> Item("", 0)]
    /\ resp = [p \in Procs |-> NoResp]
    /\ started = 0
    /\ net = [p \in Procs |-> Zero]
    /\ pre = [p \in Procs |-> [quantity |-> InitQuantity,
                               visits |-> [v \in VisitIds |-> NewVisit]]]
    /\ alone = [p \in Procs |-> TRUE]
    /\ okSum = Zero
    /\ saved = [p \in Procs |-> 0]
    /\ lowStockThreshold = InitThreshold
    /\ marked = [p \in Procs |-> FALSE]
    /\ left = NotLeft
    /\ tab = NewTab

\* The first call of the pair has been answered: what it left is set aside
\* and the collections are put back as it found them.
Rewind ==
    /\ pc["p1"] = "done"
    /\ pc["p2"] = "idle"
    /\ ~left.taken
    /\ req["p1"].hospitalId # Missing
    /\ left' = [taken |-> TRUE, quantity |-> quantity, visits |-> visits]
    /\ quantity' = pre["p1"].quantity
    /\ visits' = pre["p1"].visits
    /\ UNCHANGED <<pc, req, idx, medDoc, resp, started, net, pre, alone,
                   okSum, saved, lowStockThreshold, marked,
                   tab>>

\* The second call of the pair: the body of the first, from the other
\* hospital.
Twin ==
    /\ left.taken
    /\ Arrive("p2", {OtherHospital(req["p1"])})

\* A call with any body, then the same call from the other hospital run from
\* the same collections.
TwinNext ==
    \/ Start("p1")
    \/ Step("p1")
    \/ Rewind
    \/ Twin
    \/ Step("p2")

TwinSpec == TwinInit /\ [][TwinNext]_vars

\* ---------------------------------------------------------- pharmacist tab
\* The variables of the backend handler.
handlerVars ==
    <<quantity, visits, pc, req, idx, medDoc, resp, started, net, pre, alone,
      okSum, saved, lowStockThreshold, marked, left>>

\* The hospitalId prop of the tab, and the request slot its calls take.
TabHospital == "h1"
TabProc == "p1"

\* Tokens typed in the search box: those of the visits, and one of no visit.
Tokens == VisitIds \cup {"v9"}

\* The value typed in a quantity box.
TypedQuantities == {10}

\* The card of the visit is rendered with its editing controls.
Editable == tab.visit # NoVisit /\ ~tab.visit.medicineGiven

\* The check of the list before the request:
\* medicines.some(m => !m.medicineName?.trim() || (m.quantity ?? 0) <= 0).
Invalid(ms) ==
    \E k \in 1..Len(ms) : ms[k].medicineName = "" \/ ms[k].quantity <= 0

\* The promise of the dispense request resolves on the success response and
\* rejects on every other.
Resolves(r) == r = Ok

\* handleSearch up to its await.
handleSearch ==
    /\ ~tab.loading
    /\ \E t \in Tokens :
         tab' = [tab EXCEPT !.loading = TRUE, !.visit = NoVisit,
                            !.medicines = <<>>, !.token = t]
    /\ UNCHANGED handlerVars

\* handleSearch after its await: the visit of the token as the backend holds
\* it, or none.
SearchSettles ==
    /\ tab.loading
    /\ tab' = IF tab.token \in VisitIds
                THEN [tab EXCEPT
                        !.visit = [id |-> tab.token,
                                   medicineGiven |->
                                       visits[tab.token].medicineGiven],
                        !.medicines = visits[tab.token].prescribedMedicines,
                        !.loading = FALSE, !.token = Missing]
                ELSE [tab EXCEPT !.loading = FALSE, !.token = Missing]
    /\ UNCHANGED handlerVars

handleAddMedicine ==
    /\ Editable
    /\ Len(tab.medicines) < MaxItems
    /\ tab' = [tab EXCEPT !.medicines = Append(@, Item("", 1))]
    /\ UNCHANGED handlerVars

handleRemoveMedicine(index) ==
    /\ Editable
    /\ index \in 1..Len(tab.medicines)
    /\ tab' = [tab EXCEPT !.medicines =
                 [k \in 1..(Len(@) - 1) |-> IF k < index THEN @[k] ELSE @[k + 1]]]
    /\ UNCHANGED handlerVars

handleUpdateMedicine(index, field, value) ==
    /\ Editable
    /\ index \in 1..Len(tab.medicines)
    /\ tab.medicines[index][field] # value
    /\ tab' = [tab EXCEPT !.medicines[index][field] = value]
    /\ UNCHANGED handlerVars

\* handleGiveMedicine up to the request: the checks, setDispensing(true); the
\* closure keeps the visit and the list of this render.
handleGiveMedicine ==
    /\ Editable
    /\ ~tab.dispensing
    /\ tab.medicines # <<>>
    /\ ~Invalid(tab.medicines)
    /\ tab.visit.id # Missing
    /\ pc[TabProc] = "idle"
    /\ started < MaxCalls
    /\ tab' = [tab EXCEPT !.dispensing = TRUE, !.pc = "awaiting",
                          !.held = tab.visit, !.sent = tab.medicines]
    /\ UNCHANGED handlerVars

\* giveMedicines(visitId, hospitalId, medicines): the request reaches the
\* backend.
SendRequest ==
    /\ tab.pc = "awaiting"
    /\ Arrive(TabProc, {Req(tab.held.id, TabHospital, tab.sent)})

\* handleGiveMedicine after its await: try, catch and finally.
SettleNoFinally ==
    /\ tab.pc = "awaiting"
    /\ pc[TabProc] = "done"
    /\ \E arrived \in BOOLEAN :
         tab' = IF arrived /\ Resolves(resp[TabProc])
                  THEN [tab EXCEPT
                          !.visit = [tab.held EXCEPT !.medicineGiven = TRUE],
                          !.dispensing = FALSE, !.pc = "idle"]
                  ELSE [tab EXCEPT !.pc = "idle"]
    /\ UNCHANGED handlerVars
Settle ==
    /\ tab.pc = "awaiting"
    /\ pc[TabProc] = "done"
    /\ \E arrived \in BOOLEAN :
         tab' = IF arrived /\ Resolves(resp[TabProc])
                  THEN [tab EXCEPT
                          !.visit = [tab.held EXCEPT !.medicineGiven = TRUE],
                          !.dispensing = FALSE, !.pc = "idle"]
                  ELSE [tab EXCEPT !.dispensing = FALSE, !.pc = "idle"]
    /\ UNCHANGED handlerVars

\* The request is over; the tab can send the next.
Release ==
    /\ tab.pc = "idle"
    /\ Return(TabProc)

TabNext ==
    \/ handleSearch
    \/ SearchSettles
    \/ handleAddMedicine
    \/ \E i \in 1..MaxItems : handleRemoveMedicine(i)
    \/ \E i \in 1..MaxItems, q \in TypedQuantities :
         handleUpdateMedicine(i, "quantity", q)
    \/ handleGiveMedicine
    \/ SendRequest
    \/ Step(TabProc)
    \/ Settle
    \/ Release

\* The request of the tab on its way: sent in the tick of the click, run by
\* the backend, settled.
Progress ==
    \/ SendRequest
    \/ Step(TabProc)
    \/ Settle

\* The request is sent, the backend runs every continuation, and the promise
\* settles.
TabSpec == Init /\ [][TabNext]_vars /\ WF_vars(Progress)

\* =================================================================== claims
Done(p) == pc[p] = "done"

\* The call got as far as reading a visit that exists.
OnVisit(p) == HeaderOk(req[p]) /\ req[p].visitId \in VisitIds

\* The visit of the call was not dispensed when the call began.
FreshVisit(p) == OnVisit(p) /\ ~pre[p].visits[req[p].visitId].medicineGiven

\* No call has been cleared from its slot: the calls in the slots are all
\* the calls made so far.
AllCallsVisible == started = Cardinality({p \in Procs : pc[p] # "idle"})

\* The item list is one the dispense operation is specified to accept: not
\* empty, every name non-blank, every quantity positive.
ValidItems(ms) ==
    /\ ms # <<>>
    /\ \A k \in 1..Len(ms) : ms[k].medicineName # "" /\ ms[k].quantity > 0

Quiescent == \A p \in Procs : ~InFlight(p)

\* C1: in every reachable state the stored quantity of every medicine is
\* at least 0.
C1_QuantityNeverNegative == \A m \in Stocked : quantity[m] >= 0

\* C1 witness: a save that would have stored a negative quantity was
\* refused, the stock the call had validated being gone by then.
C1_Witness ==
    \E p \in Procs :
        /\ Done(p)
        /\ resp[p] = Thrown("validation")
        /\ quantity[medDoc[p].medicineName] < req[p].medicines[idx[p]].quantity

\* C2 (as stated): of two attempts with valid items on one visit that both
\* began before the visit was dispensed, when one returns success the other
\* does not, and the other has left nothing deducted from the inventory.
C2_ExactlyOnePerVisit ==
    \A p, q \in Procs :
        ( /\ p # q
          /\ Done(p) /\ Done(q)
          /\ FreshVisit(p) /\ FreshVisit(q)
          /\ ValidItems(req[p].medicines) /\ ValidItems(req[q].medicines)
          /\ req[p].visitId = req[q].visitId
          /\ resp[p] = Ok )
        => (resp[q] # Ok /\ net[q] = Zero)

\* C3 (as stated): once all calls have returned, all of them with valid
\* items and with success, for every medicine the opening quantity minus the
\* current quantity is the sum of the quantities the calls requested of it.
C3_NoLostUpdate ==
    ( /\ Quiescent
      /\ AllCallsVisible
      /\ \A p \in Procs :
            Done(p) => resp[p] = Ok /\ ValidItems(req[p].medicines) )
    => \A m \in Stocked : InitQuantity[m] - quantity[m] = okSum[m]

\* C4 (as stated): stock A = 100 and two calls for two different visits,
\* each asking for 60 of A and neither refused by the store: exactly one
\* succeeds, the stock ends at 40, and the other fails with
\* InsufficientStock(A, available 40 or 100, required 60).
C4_Scenario4 ==
    \A p, q \in Procs :
        ( /\ p # q
          /\ started = 2
          /\ Done(p) /\ Done(q)
          /\ OnVisit(p) /\ OnVisit(q)
          /\ req[p].visitId # req[q].visitId
          /\ req[p].medicines = <<A60>> /\ req[q].medicines = <<A60>>
          /\ resp[p] # Thrown("store") /\ resp[q] # Thrown("store") )
        => /\ quantity["A"] = 40
           /\ \/ resp[p] = Ok /\ resp[q] \in { InsufficientStock("A", a, 60) : a \in {40, 100} }
              \/ resp[q] = Ok /\ resp[p] \in { InsufficientStock("A", a, 60) : a \in {40, 100} }

\* C5 (as stated): a call that returned a failure, the store having refused
\* none of its writes, has left every quantity it wrote as it found it.
C5_NoPartialMutation ==
    \A p \in Procs :
        (Done(p) /\ resp[p] # Ok /\ resp[p] # Thrown("store")) => net[p] = Zero

\* C6 (as stated): once a visit's medicineGiven is true, no step changes the
\* visit: the flag never goes back and givenMedicines is never written again.
C6_VisitTerminal ==
    [][\A v \in VisitIds : visits[v].medicineGiven => visits'[v] = visits[v]]_vars

\* The medicines a list names.
Named(ms) == { ms[k].medicineName : k \in 1..Len(ms) }

\* The stock before the call covers what the list asks of every medicine.
Covered(ms, qty) ==
    \A n \in Named(ms) : n \in Stocked /\ Requested(ms, n) <= qty[n]

\* C7: a call with valid items on a visit not yet dispensed, every medicine
\* of which has the stock for what the call asks of it, that runs with no
\* other call and no refusal by the store, succeeds and leaves each requested
\* medicine at its quantity before the call minus the quantity requested.
C7_ExactDecrement ==
    \A p \in Procs :
        ( /\ Done(p) /\ alone[p]
          /\ FreshVisit(p)
          /\ ValidItems(req[p].medicines)
          /\ Covered(req[p].medicines, pre[p].quantity)
          /\ resp[p] # Thrown("store") )
        => /\ resp[p] = Ok
           /\ \A m \in Stocked :
                quantity[m] = pre[p].quantity[m] - Requested(req[p].medicines, m)

\* C7 witness: a call for two medicines has succeeded on its own.
C7_Witness ==
    \E p \in Procs :
        /\ Done(p) /\ alone[p] /\ resp[p] = Ok
        /\ req[p].medicines = <<B10, A60>>
        /\ pre[p].quantity = InitQuantity
        /\ quantity = [m \in Stocked |-> IF m = "A" THEN 40 ELSE 0]

\* An item the validation pass rejects against the quantities qty, and the
\* error it is specified to give.
ItemFails(item, qty) ==
    \/ item.medicineName \notin Stocked
    \/ qty[item.medicineName] < item.quantity

ExpectedError(item, qty) ==
    IF item.medicineName \notin Stocked
      THEN MedicineNotFound(item.medicineName)
      ELSE InsufficientStock(item.medicineName, qty[item.medicineName],
                             item.quantity)

ValidationErrors == {"MedicineNotFound", "InsufficientStock"}

\* C8: a call that fails validation has written nothing, and its error names
\* the item the loop was at.  Run with no other call on a visit not yet
\* dispensed, a call fails validation exactly when some item is absent or
\* short of stock; the first such item in request order gives the error, and
\* the quantities and the visits are as they were before the call.
C8_ValidationFailsFast ==
    \A p \in Procs :
        LET ms == req[p].medicines
            failing == { k \in 1..Len(ms) : ItemFails(ms[k], pre[p].quantity) }
        IN /\ (Done(p) /\ resp[p].kind \in ValidationErrors)
                => /\ net[p] = Zero
                   /\ resp[p].name = ms[idx[p]].medicineName
                   /\ resp[p].kind = "InsufficientStock"
                        => resp[p].required = ms[idx[p]].quantity
           /\ (Done(p) /\ alone[p] /\ FreshVisit(p))
                => IF failing = {}
                     THEN resp[p].kind \notin ValidationErrors
                     ELSE LET k == CHOOSE i \in failing : \A j \in failing : i <= j
                          IN /\ resp[p] = ExpectedError(ms[k], pre[p].quantity)
                             /\ quantity = pre[p].quantity
                             /\ visits = pre[p].visits

\* C8 witness: [A ok, Z absent] run on its own failed with
\* MedicineNotFound(Z), the stock of A untouched and the visit not dispensed.
C8_Witness ==
    \E p \in Procs :
        /\ Done(p) /\ alone[p]
        /\ req[p].medicines = <<A60, Item("Z", 10)>>
        /\ resp[p] = MedicineNotFound("Z")
        /\ quantity["A"] = pre[p].quantity["A"]
        /\ ~visits[req[p].visitId].medicineGiven

\* C9: a call that reads a visit whose medicineGiven is true answers
\* AlreadyDispensed, and neither that step nor anything the call did before
\* it changes a quantity or a visit.
C9_AlreadyDispensedNoOp ==
    [][\A p \in Procs :
          ( /\ pc[p] = "findVisit" /\ pc'[p] # "findVisit"
            /\ req[p].visitId \in VisitIds
            /\ visits[req[p].visitId].medicineGiven )
          => /\ resp'[p] = AlreadyDispensed
             /\ quantity' = quantity
             /\ visits' = visits
             /\ net[p] = Zero /\ net'[p] = Zero]_vars

\* C9 witness: the request that dispensed the visit was repeated on it and
\* answered AlreadyDispensed, the stock staying at 40.
C9_Witness ==
    \E p \in Procs :
        /\ Done(p) /\ resp[p] = AlreadyDispensed
        /\ req[p].medicines = <<A60>>
        /\ visits[req[p].visitId].medicineGiven
        /\ visits[req[p].visitId].givenMedicines = <<A60>>
        /\ quantity["A"] = 40

\* C10 (as stated): a call whose item list is empty, or has an item with a
\* blank name or a quantity <= 0, is answered InvalidRequest and has written
\* no quantity.
C10_RejectsInvalidItems ==
    \A p \in Procs :
        (Done(p) /\ HeaderOk(req[p]) /\ ~ValidItems(req[p].medicines))
        => (resp[p] = InvalidRequest /\ net[p] = Zero)

\* The body lacks the visit id or the hospital id, or its medicines are not
\* a list.
Malformed(r) ==
    \/ r.visitId = Missing
    \/ r.hospitalId = Missing
    \/ ~r.isArray

\* C11: a call whose body is malformed is answered InvalidRequest in its
\* first step, before any read of a visit or a medicine, and that step
\* changes no quantity and no visit.
C11_MalformedRejected ==
    [][\A p \in Procs :
          (pc[p] = "idle" /\ pc'[p] # "idle" /\ Malformed(req'[p]))
          => /\ pc'[p] = "done"
             /\ resp'[p] = InvalidRequest
             /\ quantity' = quantity
             /\ visits' = visits
             /\ lowStockThreshold' = lowStockThreshold
             /\ idx'[p] = 0 /\ saved'[p] = 0]_vars

\* C11 witness: a body whose medicines are not a list was answered
\* InvalidRequest with the collections as the call found them.
C11_Witness ==
    \E p \in Procs :
        /\ Done(p)
        /\ ~req[p].isArray /\ req[p].visitId = "v1"
        /\ resp[p] = InvalidRequest
        /\ quantity = pre[p].quantity /\ visits = pre[p].visits

\* C12 (as stated): a call that ends because the store refused a write after
\* one of its decrements was stored answers with the error kind
\* CompensationFailed, an answer no call that stored no decrement gives.
C12_CompensationFailedDistinct ==
    \A p \in Procs :
        (Done(p) /\ saved[p] > 0 /\ resp[p] = Thrown("store"))
        => /\ resp[p].kind = "CompensationFailed"
           /\ \A q \in Procs :
                (Done(q) /\ saved[q] = 0) => resp[q] # resp[p]

\* C13: the step in which a call answers success leaves the visit of the
\* call with medicineGiven true and givenMedicines equal to the item list of
\* the request, item for item, annotations included.
C13_GivenMedicinesStored ==
    [][\A p \in Procs :
          (resp[p] # Ok /\ resp'[p] = Ok)
          => LET doc == visits'[req[p].visitId]
                 ms == req[p].medicines
             IN /\ doc.medicineGiven
                /\ Len(doc.givenMedicines) = Len(ms)
                /\ \A k \in 1..Len(ms) :
                     /\ doc.givenMedicines[k].medicineName = ms[k].medicineName
                     /\ doc.givenMedicines[k].quantity = ms[k].quantity
                     /\ doc.givenMedicines[k].dosage = ms[k].dosage
                     /\ doc.givenMedicines[k].instructions = ms[k].instructions
                     /\ doc.givenMedicines[k].kala = ms[k].kala
                     /\ doc.givenMedicines[k].anupana = ms[k].anupana]_vars

\* C13 witness: a call for two items, one of them annotated, has succeeded
\* and the visit holds the two items with the annotation.
C13_Witness ==
    \E p \in Procs :
        /\ Done(p) /\ resp[p] = Ok
        /\ req[p].medicines = <<B10, A60>>
        /\ visits[req[p].visitId].medicineGiven
        /\ visits[req[p].visitId].givenMedicines[1].dosage = "1-0-1"
        /\ visits[req[p].visitId].givenMedicines[2].medicineName = "A"

\* C14: under fair scheduling every call that has arrived is eventually
\* answered, whatever the other calls do.
C14_EveryCallReturns == \A p \in Procs : InFlight(p) ~> Done(p)

\* C14 witness: a call has been answered while the other call, asking for
\* the same medicine on another visit, is still in flight.
C14_Witness ==
    \E p, q \in Procs :
        /\ Done(p) /\ InFlight(q)
        /\ ~alone[p]
        /\ OnVisit(p) /\ OnVisit(q)
        /\ req[p].visitId # req[q].visitId
        /\ req[p].medicines = <<A60>> /\ req[q].medicines = <<A60>>

\* C15: the step that marks a visit dispensed is taken by a call every item
\* of which has had its decrement saved, and the list it stores is the list
\* of those items.
C15_MarkedAfterAllDecrements ==
    [][\A p \in Procs :
          ( /\ pc[p] = "saveVisit" /\ pc'[p] = "done"
            /\ visits'[req[p].visitId] # visits[req[p].visitId] )
          => /\ saved[p] = Len(req[p].medicines)
             /\ visits'[req[p].visitId].medicineGiven
             /\ visits'[req[p].visitId].givenMedicines = req[p].medicines]_vars

\* C15 witness: a visit was marked by a call for two items after both of its
\* saves.
C15_Witness ==
    \E p \in Procs :
        /\ Done(p) /\ resp[p] = Ok /\ saved[p] = 2
        /\ req[p].medicines = <<A60, B10>>
        /\ visits[req[p].visitId].medicineGiven
        /\ net[p] = [m \in Stocked |-> IF m = "A" THEN 60 ELSE 10]

\* C16: the first failing check gives the answer: a malformed body is
\* answered InvalidRequest whatever its visit; else an unknown visit is
\* answered VisitNotFound; else a visit already dispensed is answered
\* AlreadyDispensed whatever its items; and in all three no item was read.
C16_CheckOrder ==
    \A p \in Procs :
        Done(p) =>
          /\ Malformed(req[p]) => (resp[p] = InvalidRequest /\ idx[p] = 0)
          /\ (~Malformed(req[p]) /\ req[p].visitId \notin VisitIds)
               => (resp[p].kind = "VisitNotFound" /\ idx[p] = 0)
          /\ resp[p] = AlreadyDispensed => (idx[p] = 0 /\ saved[p] = 0)
          /\ ( /\ alone[p]
               /\ ~Malformed(req[p])
               /\ req[p].visitId \in VisitIds
               /\ pre[p].visits[req[p].visitId].medicineGiven )
               => (resp[p] = AlreadyDispensed /\ idx[p] = 0)
          /\ resp[p].kind \in ValidationErrors
               => (~Malformed(req[p]) /\ req[p].visitId \in VisitIds)

\* C16 witness: a call on a dispensed visit naming a medicine absent from
\* the inventory was answered AlreadyDispensed.
C16_Witness ==
    \E p \in Procs :
        /\ Done(p) /\ alone[p]
        /\ req[p].medicines = <<A60, Item("Z", 10)>>
        /\ pre[p].visits[req[p].visitId].medicineGiven
        /\ resp[p] = AlreadyDispensed
        /\ idx[p] = 0

\* C17: the step in which a call finds no visit for its visit id answers
\* with the visit-not-found error and changes no visit and no quantity; the
\* visits are the same documents as before.
C17_VisitNotFound ==
    [][\A p \in Procs :
          ( /\ pc[p] = "findVisit" /\ pc'[p] # "findVisit"
            /\ req[p].visitId \notin VisitIds )
          => /\ pc'[p] = "done"
             /\ resp'[p].kind = "VisitNotFound"
             /\ DOMAIN visits' = DOMAIN visits
             /\ visits' = visits
             /\ quantity' = quantity
             /\ saved[p] = 0 /\ net[p] = Zero]_vars

\* C17 witness: a call for the unknown visit v9 was answered VisitNotFound.
C17_Witness ==
    \E p \in Procs :
        /\ Done(p)
        /\ req[p].visitId = "v9" /\ req[p].isArray
        /\ resp[p].kind = "VisitNotFound"
        /\ quantity = pre[p].quantity /\ visits = pre[p].visits

\* C18: a step changes the quantity of a medicine only as the save of a call
\* that names the medicine, and a visit only as the visit save of a call on
\* that visit, which leaves prescribedMedicines alone; no step changes a
\* lowStockThreshold.  An item whose medicine has the quantity asked for is
\* not rejected by validation, however far below lowStockThreshold the
\* dispense takes the quantity.
C18_Frame ==
    [][/\ \A m \in Stocked :
            quantity'[m] # quantity[m]
            => \E p \in Procs :
                 /\ pc[p] = "deductSave" /\ pc'[p] # "deductSave"
                 /\ m \in Named(req[p].medicines)
       /\ \A v \in VisitIds :
            visits'[v] # visits[v]
            => /\ \E p \in Procs :
                    /\ pc[p] = "saveVisit" /\ pc'[p] = "done"
                    /\ req[p].visitId = v
               /\ visits'[v].prescribedMedicines = visits[v].prescribedMedicines
       /\ lowStockThreshold' = lowStockThreshold
       /\ \A p \in Procs :
            ( /\ pc[p] = "validate"
              /\ <<pc'[p], idx'[p]>> # <<pc[p], idx[p]>>
              /\ req[p].medicines[idx[p]].medicineName \in Stocked
              /\ quantity[req[p].medicines[idx[p]].medicineName]
                   >= req[p].medicines[idx[p]].quantity )
            => pc'[p] # "done"]_vars

\* C18 witness: a call has succeeded leaving both medicines below their
\* lowStockThreshold, one of them at 0, the other visit untouched.
C18_Witness ==
    \E p \in Procs :
        /\ Done(p) /\ resp[p] = Ok /\ alone[p]
        /\ quantity["B"] = 0 /\ quantity["B"] < lowStockThreshold["B"]
        /\ quantity["A"] = 40 /\ quantity["A"] < lowStockThreshold["A"]
        /\ \A v \in VisitIds \ {req[p].visitId} : visits[v] = pre[p].visits[v]

\* Some medicine is named by more than one item, each item within the stock
\* before the call, the items together beyond it.
SplitOverdraw(ms, qty) ==
    /\ \A k \in 1..Len(ms) :
         /\ ms[k].medicineName \in Stocked
         /\ ms[k].quantity > 0
         /\ ms[k].quantity <= qty[ms[k].medicineName]
    /\ \E n \in Named(ms) : Requested(ms, n) > qty[n]

\* C19 (as stated): a call run with no other call, whose items overdraw a
\* medicine only together, does not succeed, leaves every quantity as it was
\* before the call, and leaves the visit not dispensed.
C19_SplitOverdrawRejected ==
    \A p \in Procs :
        ( /\ Done(p) /\ alone[p]
          /\ FreshVisit(p)
          /\ SplitOverdraw(req[p].medicines, pre[p].quantity) )
        => /\ resp[p] # Ok
           /\ quantity = pre[p].quantity
           /\ ~visits[req[p].visitId].medicineGiven

\* C20 (as stated): no step raises the quantity of a medicine.
C20_NeverAddsStock ==
    [][\A m \in Stocked : quantity'[m] <= quantity[m]]_vars

\* C21: a call is answered with success exactly in the step in which its own
\* visit save is stored, and that step leaves the visit of the call with
\* medicineGiven true and givenMedicines equal to the items of the request; a
\* call answered with anything else, an exception thrown by the save of a
\* medicine or of the visit included, has written no visit; and no visit
\* changes but in such a step.
C21_SuccessIffMarked ==
    [][/\ \A p \in Procs :
            (pc[p] # "done" /\ pc'[p] = "done")
            => /\ (resp'[p] = Ok) <=> (marked'[p] /\ ~marked[p])
               /\ marked'[p]
                    => /\ pc[p] = "saveVisit"
                       /\ visits'[req[p].visitId].medicineGiven
                       /\ visits'[req[p].visitId].givenMedicines
                            = req[p].medicines
               /\ resp'[p] # Ok => (visits' = visits /\ ~marked'[p])
       /\ visits' # visits
            => \E p \in Procs : pc[p] # "done" /\ resp'[p] = Ok /\ marked'[p]
       /\ \A p \in Procs : (marked'[p] /\ ~marked[p]) => resp'[p] = Ok]_vars

\* C21 witness: one call has succeeded and marked its visit; the other, on
\* another visit, had its decrement of A stored and its visit save refused, and
\* its visit is not dispensed.
C21_Witness ==
    \E p, q \in Procs :
        /\ Done(p) /\ resp[p] = Ok /\ marked[p]
        /\ visits[req[p].visitId].medicineGiven
        /\ Done(q) /\ resp[q] = Thrown("store") /\ ~marked[q]
        /\ saved[q] = 1 /\ req[q].medicines = <<A60>>
        /\ OnVisit(q) /\ req[q].visitId # req[p].visitId
        /\ ~visits[req[q].visitId].medicineGiven

\* The store refused the two calls of a pair at the same write, or neither.
SameRefusals ==
    /\ (resp["p1"] = Thrown("store")) <=> (resp["p2"] = Thrown("store"))
    /\ resp["p1"] = Thrown("store") => saved["p1"] = saved["p2"]

\* C22: two calls run from the same collections whose bodies differ only in
\* a non-empty hospitalId, the store refusing both at the same write or
\* neither, get the same response and leave the same quantities and the same
\* visits.
C22_HospitalIdUnused ==
    (left.taken /\ Done("p2") /\ SameRefusals)
    => /\ req["p2"].hospitalId # req["p1"].hospitalId
       /\ resp["p2"] = resp["p1"]
       /\ quantity = left.quantity
       /\ visits = left.visits

\* C22 witness: the call from the other hospital has dispensed the visit as
\* the first call of the pair had, the stock of A ending at 40 both times.
C22_Witness ==
    /\ left.taken /\ Done("p2")
    /\ req["p1"].hospitalId = "h1" /\ req["p2"].hospitalId = "h2"
    /\ req["p2"].medicines = <<A60>>
    /\ resp["p1"] = Ok /\ resp["p2"] = Ok
    /\ left.quantity["A"] = 40 /\ quantity["A"] = 40
    /\ left.visits[req["p1"].visitId].medicineGiven
    /\ visits[req["p2"].visitId].medicineGiven

\* The continuation of the tab's dispense request runs in this step.
Settling == tab.pc = "awaiting" /\ tab'.pc = "idle"

\* What a step of the pharmacist tab may do to the local visit, the list and
\* the dispensing flag.
TabStep ==
    /\ (tab'.visit.medicineGiven /\ tab'.visit # tab.visit)
         => \/ /\ Settling
               /\ pc[TabProc] = "done" /\ resp[TabProc] = Ok
               /\ tab'.visit = [tab.held EXCEPT !.medicineGiven = TRUE]
            \/ /\ tab.loading /\ ~tab'.loading
               /\ visits[tab'.visit.id].medicineGiven
    /\ (Settling /\ resp[TabProc] # Ok)
         => /\ tab'.visit = tab.visit
            /\ tab'.medicines = tab.medicines
            /\ ~tab.held.medicineGiven
            /\ tab.visit = tab.held => ~tab'.visit.medicineGiven
    /\ (tab.pc = "idle" /\ tab'.pc = "awaiting")
         => /\ ~tab.dispensing /\ tab'.dispensing
            /\ pc[TabProc] = "idle" /\ pc'[TabProc] = "idle"
    /\ (pc[TabProc] = "idle" /\ pc'[TabProc] # "idle") => tab.dispensing
    /\ Settling => (pc[TabProc] = "done" /\ ~tab'.dispensing)
    /\ (tab.dispensing /\ ~tab'.dispensing) => Settling
    /\ tab'.dispensing <=> tab'.pc = "awaiting"

\* C23: the tab sets its local visit to medicineGiven only in the step in
\* which its dispense request has come back with the success response (or by
\* loading from a search a visit the backend holds as given); when the
\* request comes back with a failure that step leaves the local visit, still
\* pending, and the edited list as they are; the dispensing flag is set
\* before the request reaches the backend and cleared in the step in which
\* the request settles, and a tab that is dispensing eventually is not.
C23_TabDispense ==
    /\ [][TabStep]_vars
    /\ tab.dispensing ~> ~tab.dispensing

\* C23 witness: after a dispense that succeeded on v1, the tab holds v2 with
\* the quantity of its item edited to 10; its request was refused by the
\* store, and the tab is not dispensing, v2 pending, the edited list kept.
C23_Witness ==
    /\ started = 2
    /\ visits["v1"].medicineGiven
    /\ tab.pc = "idle" /\ ~tab.dispensing
    /\ Done(TabProc) /\ resp[TabProc] = Thrown("store")
    /\ tab.visit = [id |-> "v2", medicineGiven |-> FALSE]
    /\ tab.medicines = <<Item("A", 10)>>
    /\ tab.sent = tab.medicines
    /\ ~visits["v2"].medicineGiven

====
